---- MODULE Spec2Model ----
(***************************************************************************)
(* A model of the read-only R2 gateway of src/src/index.ts: the paginated  *)
(* prefix enumerator listAll, the GET/HEAD handlers, the range arithmetic  *)
(* of calcContentRange and the request entry point fetch.                  *)
(*                                                                         *)
(* Strings that the code slices or compares by prefix (URL paths, object   *)
(* keys, hrefs) are sequences of atoms, the atom "/" being the separator.  *)
(* An optional JavaScript value is a sequence: <<>> when undefined, <<v>>  *)
(* when present.                                                           *)
(***************************************************************************)
EXTENDS Integers, Sequences, FiniteSets, TLC

VARIABLES
    store,       \* the bucket: the keys it holds and how it cuts listings into pages
    gpc,         \* listAll: position of the generator
    gprefix,     \* listAll: parameter prefix
    grecursive,  \* listAll: parameter isRecursive
    cursor,      \* listAll: local cursor
    r2_objects,  \* listAll: the page last returned by bucket.list
    gi,          \* listAll: index of the for..of loop over r2_objects.objects
    out,         \* listAll: the value handed to the consumer by yield
    calls,       \* the bucket.list / bucket.get calls made for the request, in order
    storeFailed, \* a store call has failed (rejected)
    requested,   \* number of next() calls the consumer of listAll has made
    received,    \* the objects the consumer of listAll has taken, in order
    req,         \* fetch: the request being handled, <<>> before the first one
    pc,          \* fetch: where the handling of the request stands
    page,        \* handle_get: the links collected for the directory page
    object,      \* handle_get: what bucket.get resolved to
    ranged,      \* handle_get: what calcContentRange returned, <<>> while not called
    resp,        \* the Response fetch resolved to, <<>> while there is none
    prev         \* the request handled before this one, with its response and calls

genVars == <<gpc, gprefix, grecursive, cursor, r2_objects, gi, out>>
useVars == <<requested, received>>
reqVars == <<req, pc, page, object, ranged, resp, prev>>
vars == <<store, genVars, calls, storeFailed, useVars, reqVars>>

(***************************************************************************)
(* Bounds of the model.                                                    *)
(***************************************************************************)
MaxPageSize == 2   \* most objects the store puts on one page that is cut short
MaxCuts == 2       \* most truncated pages the store returns for one listing
MaxSize == 4       \* largest object size handed to the object branch of handle_get
MaxNum == 4        \* largest suffix, offset or length of a range

(***************************************************************************)
(* String helpers on atom sequences.                                       *)
(***************************************************************************)
Min(a, b) == IF a <= b THEN a ELSE b

startsWith(s, p) == Len(s) >= Len(p) /\ SubSeq(s, 1, Len(p)) = p

endsWith(s, a) == Len(s) >= 1 /\ s[Len(s)] = a

sliceFrom(s, n) == SubSeq(s, n + 1, Len(s))

dropLast(s) == SubSeq(s, 1, Len(s) - 1)

includes(s, a) == \E i \in 1..Len(s) : s[i] = a

(***************************************************************************)
(* The bucket.  Objects are immutable; KeyOrder is every key the model     *)
(* knows, in the lexicographic order in which R2 lists keys.               *)
(***************************************************************************)
KeyOrder ==
    << <<"a.txt">>,
       <<"b">>,
       <<"public">>,
       <<"public", "/", "a.txt">>,
       <<"public", "/", "b">>,
       <<"public", "/", "b", "/", "c">> >>

AllKeys == {KeyOrder[i] : i \in 1..Len(KeyOrder)}

NoHttpMetadata ==
    [contentType |-> <<>>, contentDisposition |-> <<>>, contentEncoding |-> <<>>,
     contentLanguage |-> <<>>, cacheControl |-> <<>>, cacheExpiry |-> <<>>]

\* customMetadata.resourcetype of the directory markers, httpMetadata and size per key
ObjectOf(key) ==
    [key |-> key,
     size |-> CASE key = <<"public", "/", "a.txt">> -> 3
                [] key = <<"public", "/", "b", "/", "c">> -> 2
                [] key = <<"a.txt">> -> 1
                [] OTHER -> 0,
     resourcetype |-> IF key \in {<<"b">>, <<"public">>, <<"public", "/", "b">>}
                      THEN <<"<collection />">> ELSE <<>>,
     httpMetadata |-> CASE key = <<"public", "/", "a.txt">> ->
                              [NoHttpMetadata EXCEPT !.contentType = <<"text/plain">>]
                        [] key = <<"public", "/", "b", "/", "c">> ->
                              [NoHttpMetadata EXCEPT !.contentDisposition = <<"inline">>,
                                                     !.cacheControl = <<"no-cache">>]
                        [] OTHER -> NoHttpMetadata]

Pagings ==
    UNION {[1..n -> 0..MaxPageSize] : n \in 0..MaxCuts}

Stores == [keys : SUBSET AllKeys, paging : Pagings]

\* bucket.list: the keys under prefix, without those grouped under a delimiter
ListMatches(s, prefix, delimiter) ==
    SelectSeq(KeyOrder,
              LAMBDA k : /\ k \in s.keys
                         /\ startsWith(k, prefix)
                         /\ (delimiter = <<>> \/
                             ~includes(sliceFrom(k, Len(prefix)), delimiter[1])))

RECURSIVE PageStart(_, _, _)
\* number of matches the pages before page i have returned
PageStart(paging, n, i) ==
    IF i <= 1 THEN 0
    ELSE LET before == PageStart(paging, n, i - 1)
         IN  IF i - 1 <= Len(paging)
             THEN before + Min(paging[i - 1], n - before)
             ELSE n

\* bucket.list({prefix, delimiter, cursor}): page 1 without cursor, else the page
\* after the one that handed out the cursor
bucket_list(s, prefix, delimiter, cur) ==
    LET matches == ListMatches(s, prefix, delimiter)
        i == IF cur = <<>> THEN 1 ELSE cur[1] + 1
        from == PageStart(s.paging, Len(matches), i)
        to == PageStart(s.paging, Len(matches), i + 1)
        more == i <= Len(s.paging)
    IN  [objects |-> [j \in 1..(to - from) |-> ObjectOf(matches[from + j])],
         truncated |-> more,
         cursor |-> IF more THEN <<i>> ELSE <<>>]

NoPage == [objects |-> <<>>, truncated |-> FALSE, cursor |-> <<>>]

(***************************************************************************)
(* listAll (async generator).  gpc: "none" no generator; "start" created   *)
(* and not yet run; "list" about to await bucket.list; "loop" in the       *)
(* for..of loop; "suspended" at yield; "done" returned; "thrown" ended by  *)
(* the rejection of bucket.list; "returned" closed at a yield by the       *)
(* consumer leaving its loop.                                              *)
(***************************************************************************)
ListCall(prefix, isRecursive, cur) ==
    [op |-> "list", name |-> prefix,
     delimiter |-> IF isRecursive THEN <<>> ELSE <<"/">>, cursor |-> cur]

\* next(): the consumer resumes the generator, from its start or from a yield
listAll_resume ==
    /\ gpc \in {"start", "suspended"}
    /\ gpc' = IF gpc = "start" THEN "list" ELSE "loop"
    /\ gi' = IF gpc = "start" THEN gi ELSE gi + 1
    /\ out' = <<>>
    /\ UNCHANGED <<gprefix, grecursive, cursor, r2_objects>>

\* lines 9-15: await bucket.list(...) resolves
listAll_list ==
    /\ gpc = "list"
    /\ LET c == ListCall(gprefix, grecursive, cursor)
       IN  /\ calls' = Append(calls, c)
           /\ r2_objects' = bucket_list(store, c.name, c.delimiter, c.cursor)
    /\ gi' = 1
    /\ gpc' = "loop"
    /\ UNCHANGED <<store, gprefix, grecursive, cursor, out, storeFailed>>

\* lines 9-15: await bucket.list(...) rejects; nothing in listAll catches it
listAll_throw ==
    /\ gpc = "list"
    /\ calls' = Append(calls, ListCall(gprefix, grecursive, cursor))
    /\ storeFailed' = TRUE
    /\ gpc' = "thrown"
    /\ UNCHANGED <<store, gprefix, grecursive, cursor, r2_objects, gi, out>>

\* yield object, fetching the next page ahead once the page is used up
listAll_yield_prefetch ==
    /\ gpc = "loop"
    /\ gi <= Len(r2_objects.objects)
    /\ out' = <<r2_objects.objects[gi]>>
    /\ gpc' = "suspended"
    /\ IF gi = Len(r2_objects.objects) /\ r2_objects.truncated
       THEN LET c == ListCall(gprefix, grecursive, r2_objects.cursor)
            IN  /\ calls' = Append(calls, c)
                /\ cursor' = r2_objects.cursor
                /\ r2_objects' = bucket_list(store, c.name, c.delimiter, c.cursor)
                /\ gi' = 0
       ELSE UNCHANGED <<calls, cursor, r2_objects, gi>>
    /\ UNCHANGED <<store, gprefix, grecursive, storeFailed>>

\* lines 17-19: yield object
listAll_yield ==
    /\ gpc = "loop"
    /\ gi <= Len(r2_objects.objects)
    /\ out' = <<r2_objects.objects[gi]>>
    /\ gpc' = "suspended"
    /\ UNCHANGED <<store, gprefix, grecursive, cursor, r2_objects, gi, calls, storeFailed>>

\* after the last object of the page, list again without taking the new cursor
listAll_advance_stale ==
    /\ gpc = "loop"
    /\ gi > Len(r2_objects.objects)
    /\ gpc' = IF r2_objects.truncated THEN "list" ELSE "done"
    /\ UNCHANGED <<store, gprefix, grecursive, cursor, r2_objects, gi, out, calls,
                   storeFailed>>

\* lines 21-24: after the last object of the page, follow the cursor or return
listAll_advance ==
    /\ gpc = "loop"
    /\ gi > Len(r2_objects.objects)
    /\ cursor' = IF r2_objects.truncated THEN r2_objects.cursor ELSE cursor
    /\ gpc' = IF r2_objects.truncated THEN "list" ELSE "done"
    /\ UNCHANGED <<store, gprefix, grecursive, r2_objects, gi, out, calls, storeFailed>>

(***************************************************************************)
(* Responses.  Headers are a set of <<name, value>> pairs; a body is null, *)
(* a string, the directory page or the byte stream of an object.           *)
(***************************************************************************)
NullBody == [kind |-> "null", text |-> "", links |-> <<>>, key |-> <<>>]

TextBody(t) == [kind |-> "text", text |-> t, links |-> <<>>, key |-> <<>>]

HtmlBody(links) == [kind |-> "html", text |-> "", links |-> links, key |-> <<>>]

StreamBody(key) == [kind |-> "stream", text |-> "", links |-> <<>>, key |-> key]

HeaderNames(headers) == {h[1] : h \in headers}

\* new Response(body, {status, statusText, headers}): a string body without a
\* Content-Type header gets the text/plain one
Response(body, status, statusText, headers) ==
    [status |-> status,
     statusText |-> statusText,
     headers |-> IF body.kind \in {"text", "html"} /\ "Content-Type" \notin HeaderNames(headers)
                 THEN headers \cup {<<"Content-Type", "text/plain;charset=UTF-8">>}
                 ELSE headers,
     body |-> body]

SUPPORT_METHODS == "OPTIONS, GET, HEAD"

(***************************************************************************)
(* calcContentRange and the response for a fetched object.                 *)
(***************************************************************************)
\* object.range.offset ?? 0 and the like
orElse(opt, default) == IF opt = <<>> THEN default ELSE opt[1]

\* calcContentRange without the Math.min of line 133
calcContentRange_unclamped(o) ==
    IF o.range = <<>>
    THEN [rangeOffset |-> 0, rangeEnd |-> o.size - 1]
    ELSE LET range == o.range[1]
         IN  IF range.suffix # <<>>
             THEN [rangeOffset |-> o.size - range.suffix[1], rangeEnd |-> o.size - 1]
             ELSE LET rangeOffset == orElse(range.offset, 0)
                      length == orElse(range.length, o.size - rangeOffset)
                  IN  [rangeOffset |-> rangeOffset,
                       rangeEnd |-> rangeOffset + length - 1]

calcContentRange(o) ==
    IF o.range = <<>>
    THEN [rangeOffset |-> 0, rangeEnd |-> o.size - 1]
    ELSE LET range == o.range[1]
         IN  IF range.suffix # <<>>
             THEN [rangeOffset |-> o.size - range.suffix[1], rangeEnd |-> o.size - 1]
             ELSE LET rangeOffset == orElse(range.offset, 0)
                      length == orElse(range.length, o.size - rangeOffset)
                  IN  [rangeOffset |-> rangeOffset,
                       rangeEnd |-> Min(rangeOffset + length - 1, o.size - 1)]

\* 206 for every request that carries a range
StatusOf_anyRange(o, contentLength) ==
    IF o.range # <<>> THEN 206 ELSE 200

\* line 85: object.range && contentLength !== object.size ? 206 : 200
StatusOf(o, contentLength) ==
    IF o.range # <<>> /\ contentLength # o.size THEN 206 ELSE 200

\* a header spread in only when its value is truthy
spreadIf(name, opt) ==
    IF opt # <<>> /\ opt[1] # "" THEN {<<name, opt[1]>>} ELSE {}

\* Date.prototype.toISOString of the expiry dates the model knows (epoch milliseconds)
toISOString(ms) ==
    CASE ms = 0 -> "1970-01-01T00:00:00.000Z"
      [] OTHER -> "1970-01-01T00:00:01.000Z"

\* lines 82-116
ObjectResponse(o) ==
    LET r == calcContentRange(o)
        contentLength == r.rangeEnd - r.rangeOffset + 1
        m == o.httpMetadata
    IN  Response(StreamBody(o.key), StatusOf(o, contentLength), "",
            {<<"Content-Type", orElse(m.contentType, "application/octet-stream")>>,
             <<"Content-Length", ToString(contentLength)>>,
             <<"Content-Range", "bytes " \o ToString(r.rangeOffset) \o "-"
                                \o ToString(r.rangeEnd) \o "/" \o ToString(o.size)>>}
            \cup spreadIf("Content-Disposition", m.contentDisposition)
            \cup spreadIf("Content-Encoding", m.contentEncoding)
            \cup spreadIf("Content-Language", m.contentLanguage)
            \cup spreadIf("Cache-Control", m.cacheControl)
            \cup (IF m.cacheExpiry = <<>> THEN {}
                  ELSE {<<"Cache-Expiry", toISOString(m.cacheExpiry[1])>>}))

(***************************************************************************)
(* Requests.  A request carries its method, the path and query of its URL, *)
(* the range its Range header asks for and whether its conditional headers *)
(* (onlyIf) match the object it names.                                     *)
(***************************************************************************)
NoRange == [suffix |-> <<>>, offset |-> <<>>, length |-> <<>>]

Methods == {"OPTIONS", "GET", "HEAD", "DELETE"}

Pathnames ==
    { <<"/">>,
      <<"/", "public">>,
      <<"/", "public", "/">>,
      <<"/", "public", "/", "a.txt">>,
      <<"/", "public", "/", "b", "/">>,
      <<"/", "public", "/", "b", "/", "c">>,
      <<"/", "public", "x">> }

Searches == {<<>>, <<"?", "/">>}

RequestRanges ==
    { <<>>,
      <<[NoRange EXCEPT !.suffix = <<1>>]>>,
      <<[NoRange EXCEPT !.offset = <<0>>, !.length = <<3>>]>> }

Requests ==
    [method : Methods, pathname : Pathnames, search : Searches,
     range : RequestRanges, precond : BOOLEAN]

\* request.url, as far as the code reads it: path and query
urlOf(request) == request.pathname \o request.search

make_resource_path(request) ==
    LET path == sliceFrom(request.pathname, 1)
    IN  IF endsWith(path, "/") THEN dropLast(path) ELSE path

GetCall(key) == [op |-> "get", name |-> key, delimiter |-> <<>>, cursor |-> <<>>]

\* bucket.get(key, {onlyIf, range}): null, the object without body when the
\* conditions fail, else the object with its body and the range asked for
bucket_get(s, key, request) ==
    IF key \notin s.keys THEN <<>>
    ELSE <<[key |-> key,
            size |-> ObjectOf(key).size,
            httpMetadata |-> ObjectOf(key).httpMetadata,
            hasBody |-> request.precond,
            range |-> IF request.precond THEN request.range ELSE <<>>]>>

\* handle_head passing on the status alone
handle_head_noHeaders(response) ==
    Response(NullBody, response.status, response.statusText, {})

\* lines 33-40
handle_head(response) ==
    Response(NullBody, response.status, response.statusText, response.headers)

\* the response travels back through dispatch_handler (lines 151-156) to fetch
Return(request, response) ==
    /\ resp' = <<IF request.method = "HEAD" THEN handle_head(response) ELSE response>>
    /\ pc' = "done"

NoGenerator ==
    /\ gpc' = "none"
    /\ gprefix' = <<>>
    /\ grecursive' = FALSE
    /\ cursor' = <<>>
    /\ r2_objects' = NoPage
    /\ gi' = 0
    /\ out' = <<>>

ParentLink == [href |-> <<"..", "/">>, text |-> <<"..">>]

\* lines 42-53 and 68: handle_get up to its first store call; for await creates
\* the generator and calls next() on it, which runs listAll up to bucket.list
handle_get(request) ==
    LET resource_path == make_resource_path(request)
    IN  /\ resp' = <<>>
        /\ IF endsWith(urlOf(request), "/")
           THEN /\ page' = IF resource_path # <<>> THEN <<ParentLink>> ELSE <<>>
                /\ gprefix' = IF resource_path # <<>>
                              THEN resource_path \o <<"/">> ELSE resource_path
                /\ grecursive' = FALSE
                /\ gpc' = "list"
                /\ cursor' = <<>>
                /\ r2_objects' = NoPage
                /\ gi' = 0
                /\ out' = <<>>
                /\ pc' = "listing"
           ELSE /\ page' = <<>>
                /\ NoGenerator
                /\ pc' = "getting"

\* lines 141-166
dispatch_handler(request) ==
    CASE request.method = "OPTIONS" ->
            /\ Return(request, Response(NullBody, 204, "", {<<"Allow", SUPPORT_METHODS>>}))
            /\ page' = <<>>
            /\ NoGenerator
      [] request.method \in {"HEAD", "GET"} -> handle_get(request)
      [] OTHER ->
            /\ Return(request, Response(TextBody("Method Not Allowed"), 405, "",
                                        {<<"Allow", SUPPORT_METHODS>>}))
            /\ page' = <<>>
            /\ NoGenerator

is_public_path(request) ==
    \/ startsWith(request.pathname, <<"/", "public", "/">>)
    \/ request.pathname = <<"/", "public">>

\* fetch letting OPTIONS requests past the gate
fetch_skipOptions(request) ==
    /\ req' = <<request>>
    /\ calls' = <<>>
    /\ storeFailed' = FALSE
    /\ object' = <<>>
    /\ ranged' = <<>>
    /\ IF ~is_public_path(request) /\ request.method # "OPTIONS"
       THEN /\ Return(request, Response(TextBody("Unauthorized"), 401, "", {}))
            /\ page' = <<>>
            /\ NoGenerator
       ELSE dispatch_handler(request)
    /\ UNCHANGED <<store, useVars>>

\* lines 169-184, run until the response or the first store call
fetch(request) ==
    /\ req' = <<request>>
    /\ calls' = <<>>
    /\ storeFailed' = FALSE
    /\ object' = <<>>
    /\ ranged' = <<>>
    /\ IF ~is_public_path(request)
       THEN /\ Return(request, Response(TextBody("Unauthorized"), 401, "", {}))
            /\ page' = <<>>
            /\ NoGenerator
       ELSE dispatch_handler(request)
    /\ UNCHANGED <<store, useVars>>

\* a request arrives at the idle worker
fetch_first ==
    /\ pc = "idle"
    /\ \E request \in Requests : fetch(request)
    /\ prev' = <<>>

\* the same URL and headers are requested again, GET for HEAD or HEAD for GET
fetch_again ==
    /\ pc = "done"
    /\ prev = <<>>
    /\ req[1].method \in {"GET", "HEAD"}
    /\ fetch([req[1] EXCEPT !.method = IF @ = "GET" THEN "HEAD" ELSE "GET"])
    /\ prev' = <<[req |-> req[1], resp |-> resp[1], calls |-> calls]>>

\* the loop body without the trailing slash of collections
handle_get_loop_noSlash ==
    /\ pc = "listing"
    /\ out # <<>>
    /\ LET resource_path == make_resource_path(req[1])
           o == out[1]
           text == IF o.httpMetadata.contentDisposition # <<>>
                   THEN o.httpMetadata.contentDisposition
                   ELSE sliceFrom(o.key, Len(gprefix))
       IN  page' = IF o.key = resource_path THEN page
                   ELSE Append(page, [href |-> <<"/">> \o o.key, text |-> text])
    /\ listAll_resume
    /\ UNCHANGED <<store, calls, storeFailed, useVars, req, pc, object, ranged, resp, prev>>

\* lines 53-59: the loop body, then next() on the generator
handle_get_loop ==
    /\ pc = "listing"
    /\ out # <<>>
    /\ LET resource_path == make_resource_path(req[1])
           o == out[1]
           href == <<"/">> \o o.key \o
                   (IF o.resourcetype = <<"<collection />">> THEN <<"/">> ELSE <<>>)
           text == IF o.httpMetadata.contentDisposition # <<>>
                   THEN o.httpMetadata.contentDisposition
                   ELSE sliceFrom(o.key, Len(gprefix))
       IN  page' = IF o.key = resource_path THEN page
                   ELSE Append(page, [href |-> href, text |-> text])
    /\ listAll_resume
    /\ UNCHANGED <<store, calls, storeFailed, useVars, req, pc, object, ranged, resp, prev>>

\* lines 60-66: the generator is done, the page is returned
handle_get_page ==
    /\ pc = "listing"
    /\ gpc = "done"
    /\ Return(req[1], Response(HtmlBody(page), 200, "",
                               {<<"Content-Type", "text/html; charset=utf-8">>}))
    /\ UNCHANGED <<store, genVars, calls, storeFailed, useVars, req, page, object,
                   ranged, prev>>

\* line 68: await bucket.get(...) resolves
handle_get_object ==
    /\ pc = "getting"
    /\ LET key == make_resource_path(req[1])
       IN  /\ calls' = Append(calls, GetCall(key))
           /\ object' = bucket_get(store, key, req[1])
    /\ pc' = "fetched"
    /\ UNCHANGED <<store, genVars, storeFailed, useVars, req, page, ranged, resp, prev>>

\* line 68: await bucket.get(...) rejects; nothing catches it
handle_get_reject ==
    /\ pc = "getting"
    /\ calls' = Append(calls, GetCall(make_resource_path(req[1])))
    /\ storeFailed' = TRUE
    /\ pc' = "uncaught"
    /\ UNCHANGED <<store, genVars, useVars, req, page, object, ranged, resp, prev>>

\* lines 77-117 without the isR2ObjectBody test
handle_get_respond_noBodyTest ==
    /\ pc = "fetched"
    /\ IF object = <<>>
       THEN /\ Return(req[1], Response(TextBody("Not Found"), 404, "", {}))
            /\ ranged' = ranged
       ELSE /\ Return(req[1], ObjectResponse(object[1]))
            /\ ranged' = <<calcContentRange(object[1])>>
    /\ UNCHANGED <<store, genVars, calls, storeFailed, useVars, req, page, object, prev>>

\* lines 77-117
handle_get_respond ==
    /\ pc = "fetched"
    /\ IF object = <<>>
       THEN /\ Return(req[1], Response(TextBody("Not Found"), 404, "", {}))
            /\ ranged' = ranged
       ELSE IF ~object[1].hasBody
       THEN /\ Return(req[1], Response(TextBody("Precondition Failed"), 412, "", {}))
            /\ ranged' = ranged
       ELSE /\ Return(req[1], ObjectResponse(object[1]))
            /\ ranged' = <<calcContentRange(object[1])>>
    /\ UNCHANGED <<store, genVars, calls, storeFailed, useVars, req, page, object, prev>>

\* the rejection of bucket.list caught in listAll, which ends the listing there
listAll_caught ==
    /\ pc = "listing"
    /\ gpc = "list"
    /\ calls' = Append(calls, ListCall(gprefix, grecursive, cursor))
    /\ storeFailed' = TRUE
    /\ gpc' = "done"
    /\ UNCHANGED <<store, gprefix, grecursive, cursor, r2_objects, gi, out>>
    /\ UNCHANGED <<useVars, reqVars>>

\* the rejection of bucket.list leaves listAll, the for await loop, handle_get,
\* handle_head, dispatch_handler and fetch: the request ends without response
listAll_uncaught ==
    /\ pc = "listing"
    /\ listAll_throw
    /\ pc' = "uncaught"
    /\ UNCHANGED <<useVars, req, page, object, ranged, resp, prev>>

\* the worker before its first request; the bucket cuts its pages at one size
Init ==
    /\ store \in {s \in Stores : \A i, j \in DOMAIN s.paging : s.paging[i] = s.paging[j]}
    /\ gpc = "none"
    /\ gprefix = <<>>
    /\ grecursive = FALSE
    /\ cursor = <<>>
    /\ r2_objects = NoPage
    /\ gi = 0
    /\ out = <<>>
    /\ calls = <<>>
    /\ storeFailed = FALSE
    /\ requested = 0
    /\ received = <<>>
    /\ req = <<>>
    /\ pc = "idle"
    /\ page = <<>>
    /\ object = <<>>
    /\ ranged = <<>>
    /\ resp = <<>>
    /\ prev = <<>>

Next ==
    \/ fetch_first
    \/ fetch_again
    \/ pc = "listing" /\ listAll_list /\ UNCHANGED <<useVars, reqVars>>
    \/ listAll_uncaught
    \/ pc = "listing" /\ listAll_yield /\ UNCHANGED <<useVars, reqVars>>
    \/ pc = "listing" /\ listAll_advance /\ UNCHANGED <<useVars, reqVars>>
    \/ handle_get_loop
    \/ handle_get_page
    \/ handle_get_object
    \/ handle_get_reject
    \/ handle_get_respond

Spec == Init /\ [][Next]_vars

(***************************************************************************)
(* The object branch of handle_get on its own: bucket.get has resolved to  *)
(* any answer the store may give, and lines 77-117 run on it.              *)
(***************************************************************************)
Opt(S) == {<<>>} \cup {<<x>> : x \in S}

Ranges ==
    Opt( [suffix : {<<v>> : v \in 0..MaxNum}, offset : {<<>>}, length : {<<>>}]
         \cup [suffix : {<<>>}, offset : {<<v>> : v \in 0..MaxNum}, length : Opt(0..MaxNum)]
         \cup [suffix : {<<>>}, offset : {<<>>}, length : {<<v>> : v \in 0..MaxNum}] )

HttpMetadatas ==
    [contentType : {<<>>, <<"">>, <<"text/plain">>},
     contentDisposition : {<<>>, <<"">>, <<"inline">>},
     contentEncoding : Opt({"gzip"}),
     contentLanguage : Opt({"en"}),
     cacheControl : Opt({"no-cache"}),
     cacheExpiry : Opt({0})]

FetchedObjects ==
    Opt( [key : {<<"public", "/", "a.txt">>}, size : 0..MaxSize,
          httpMetadata : HttpMetadatas, hasBody : {TRUE}, range : Ranges]
         \cup [key : {<<"public", "/", "a.txt">>}, size : 0..MaxSize,
               httpMetadata : {NoHttpMetadata}, hasBody : {FALSE}, range : {<<>>}] )

FetchInit ==
    /\ store \in {s \in Stores : s.keys = AllKeys /\ s.paging = <<>>}
    /\ gpc = "none"
    /\ gprefix = <<>>
    /\ grecursive = FALSE
    /\ cursor = <<>>
    /\ r2_objects = NoPage
    /\ gi = 0
    /\ out = <<>>
    /\ calls = <<GetCall(<<"public", "/", "a.txt">>)>>
    /\ storeFailed = FALSE
    /\ requested = 0
    /\ received = <<>>
    /\ req \in {<<r>> : r \in {q \in Requests : /\ q.method \in {"GET", "HEAD"}
                                               /\ q.pathname = <<"/", "public", "/", "a.txt">>
                                               /\ q.search = <<>>
                                               /\ q.range = <<>>
                                               /\ q.precond}}
    /\ pc = "fetched"
    /\ page = <<>>
    /\ object \in FetchedObjects
    /\ ranged = <<>>
    /\ resp = <<>>
    /\ prev = <<>>

FetchNext == handle_get_respond

FetchSpec == FetchInit /\ [][FetchNext]_vars

(***************************************************************************)
(* A consumer of listAll on its own: for await (const o of listAll(...)),   *)
(* which may leave the loop after any object.                              *)
(***************************************************************************)
Prefixes == {<<>>, <<"public", "/">>}

ListInit ==
    /\ store \in Stores
    /\ \E p \in Prefixes, r \in BOOLEAN :
          /\ gpc = "start"
          /\ gprefix = p
          /\ grecursive = r
    /\ cursor = <<>>
    /\ r2_objects = NoPage
    /\ gi = 0
    /\ out = <<>>
    /\ calls = <<>>
    /\ storeFailed = FALSE
    /\ requested = 0
    /\ received = <<>>
    /\ req = <<>>
    /\ pc = "idle"
    /\ page = <<>>
    /\ object = <<>>
    /\ ranged = <<>>
    /\ resp = <<>>
    /\ prev = <<>>

\* the loop asks for the next object
consumer_next ==
    /\ out = <<>>
    /\ listAll_resume
    /\ requested' = requested + 1
    /\ UNCHANGED <<store, calls, storeFailed, received, reqVars>>

\* the loop body takes the object that was yielded
consumer_take ==
    /\ out # <<>>
    /\ received' = Append(received, out[1])
    /\ out' = <<>>
    /\ UNCHANGED <<store, gpc, gprefix, grecursive, cursor, r2_objects, gi,
                   calls, storeFailed, requested, reqVars>>

\* break: the generator is closed at its yield and never resumed
consumer_break ==
    /\ gpc = "suspended"
    /\ out = <<>>
    /\ gpc' = "returned"
    /\ UNCHANGED <<store, gprefix, grecursive, cursor, r2_objects, gi, out,
                   calls, storeFailed, useVars, reqVars>>

ListStep ==
    \/ listAll_list /\ UNCHANGED <<useVars, reqVars>>
    \/ listAll_throw /\ UNCHANGED <<useVars, reqVars>>
    \/ listAll_yield /\ UNCHANGED <<useVars, reqVars>>
    \/ listAll_advance /\ UNCHANGED <<useVars, reqVars>>

ListNext ==
    \/ consumer_next
    \/ consumer_take
    \/ consumer_break
    \/ ListStep

\* the runtime resumes the generator and the loop whenever they can run
ListSpec ==
    ListInit /\ [][ListNext]_vars /\ WF_vars(consumer_next \/ consumer_take \/ ListStep)

(***************************************************************************)
(* Properties of listAll.                                                  *)
(***************************************************************************)
RECURSIVE PagesFrom(_, _, _, _)
\* the pages the store returns for a listing, following each page's cursor
PagesFrom(s, prefix, delimiter, cur) ==
    LET p == bucket_list(s, prefix, delimiter, cur)
    IN  IF p.truncated THEN <<p>> \o PagesFrom(s, prefix, delimiter, p.cursor) ELSE <<p>>

ExpectedPages ==
    PagesFrom(store, gprefix, IF grecursive THEN <<>> ELSE <<"/">>, <<>>)

RECURSIVE Concat(_)
Concat(pages) ==
    IF pages = <<>> THEN <<>> ELSE pages[1].objects \o Concat(Tail(pages))

IsPrefixOf(a, b) == Len(a) <= Len(b) /\ SubSeq(b, 1, Len(a)) = a

C1_Pages ==
    LET ps == ExpectedPages
    IN  /\ Len(calls) <= Len(ps)
        /\ \A i \in 1..Len(calls) :
              calls[i] = ListCall(gprefix, grecursive,
                                  IF i = 1 THEN <<>> ELSE ps[i - 1].cursor)
        /\ IsPrefixOf(received \o out, Concat(ps))
        /\ gpc = "done" => /\ received = Concat(ps)
                           /\ Len(calls) = Len(ps)

\* C1: when the store's listing is M truncated pages and a last one, a consumer
\* that takes everything receives the pages' objects concatenated in page order,
\* listAll having made M+1 list calls, the first without cursor and each later one
\* with the cursor of the page before; and the enumeration ends.
C1_Exhaustive ==
    /\ []C1_Pages
    /\ <>(gpc \in {"done", "returned", "thrown"})

C1_Witness ==
    /\ gpc = "done"
    /\ Len(calls) = 3
    /\ Len(received) >= 3
    /\ \E i \in 1..Len(ExpectedPages) : Len(ExpectedPages[i].objects) >= 2

\* the number of pages that must be listed to hand out n objects
PagesNeeded(n) ==
    LET ps == ExpectedPages
        upTo(p) == Len(Concat(SubSeq(ps, 1, p)))
    IN  IF n = 0 THEN 0
        ELSE IF \E p \in 1..Len(ps) : upTo(p) >= n
        THEN CHOOSE p \in 1..Len(ps) :
                 /\ upTo(p) >= n
                 /\ \A q \in 1..(p - 1) : upTo(q) < n
        ELSE Len(ps)

\* C10: listAll is lazy: it has never made more list calls than the pages needed
\* for the objects its consumer has asked for so far, so the call for the next
\* page waits until every object of this page is taken and one more is asked
\* for, and a consumer that leaves early causes no further call.
C10_Lazy ==
    Len(calls) <= PagesNeeded(requested)

C10_Witness ==
    /\ gpc = "returned"
    /\ Len(calls) = 2
    /\ Len(calls) < Len(ExpectedPages)
    /\ Len(received) < Len(Concat(ExpectedPages))

(***************************************************************************)
(* Properties of the request entry point.                                  *)
(***************************************************************************)
Done(method) == pc = "done" /\ req # <<>> /\ req[1].method = method

HeaderOf(response, name) == {h[2] : h \in {x \in response.headers : x[1] = name}}

\* the path is /public or lies under /public/
UnderPublic(p) ==
    \/ p = <<"/", "public">>
    \/ Len(p) >= 3 /\ p[1] = "/" /\ p[2] = "public" /\ p[3] = "/"

PairOf(method) ==
    IF req[1].method = method
    THEN [resp |-> resp[1], calls |-> calls]
    ELSE [resp |-> prev[1].resp, calls |-> prev[1].calls]

RootRequest ==
    Done("GET") /\ req[1].pathname = <<"/">> /\ req[1].search = <<>>

\* C7 as claimed: GET / lists the store root: a.txt and the collection b.
C7_RootListing ==
    (RootRequest /\ store.keys = {<<"a.txt">>, <<"b">>}) =>
        /\ resp[1].status = 200
        /\ resp[1].body = HtmlBody(<< [href |-> <<"/", "a.txt">>, text |-> <<"a.txt">>],
                                      [href |-> <<"/", "b", "/">>, text |-> <<"b">>] >>)

LinkIf(key, slash) ==
    IF key \in store.keys
    THEN << [href |-> <<"/">> \o key \o slash, text |-> <<key[Len(key)]>>] >>
    ELSE <<>>

\* C7 amended: GET / is answered 401 by the gate; the listing the entry point
\* serves is that of the public folder: GET /public/ returns the page with the
\* parent link, then /public/a.txt and /public/b/ as far as the store holds
\* them, and nothing from deeper levels or from outside the folder.
C7_PublicListing ==
    /\ RootRequest => resp[1].status = 401 /\ calls = <<>>
    /\ (Done("GET") /\ req[1].pathname = <<"/", "public", "/">> /\ req[1].search = <<>>) =>
          /\ resp[1].status = 200
          /\ HeaderOf(resp[1], "Content-Type") = {"text/html; charset=utf-8"}
          /\ resp[1].body =
                HtmlBody(<<ParentLink>>
                         \o LinkIf(<<"public", "/", "a.txt">>, <<>>)
                         \o LinkIf(<<"public", "/", "b">>, <<"/">>))

C7_Witness ==
    /\ Done("GET")
    /\ req[1].pathname = <<"/", "public", "/">>
    /\ req[1].search = <<>>
    /\ store.keys = {<<"public", "/", "a.txt">>, <<"public", "/", "b">>}
    /\ Len(resp[1].body.links) = 3
    /\ Len(calls) = 2

ObjectRequest == Done("GET") /\ Len(calls) = 1 /\ calls[1].op = "get"

ContentHeaders == {"Content-Type", "Content-Length", "Content-Range"}

\* C8 as claimed: the 412 has no body and no content header.
C8_BareErrors ==
    ObjectRequest =>
        /\ object = <<>> =>
              /\ resp[1].status = 404
              /\ resp[1].body.kind = "text"
              /\ ranged = <<>>
        /\ (object # <<>> /\ ~object[1].hasBody) =>
              /\ resp[1].status = 412
              /\ resp[1].body = NullBody
              /\ HeaderNames(resp[1].headers) \cap ContentHeaders = {}
              /\ ranged = <<>>
        /\ resp[1].status \in {200, 206} <=> (object # <<>> /\ object[1].hasBody)

\* C8 amended: on the object branch of GET, no object gives 404 and an object
\* without body gives 412, both with a plain-text body (Not Found, Precondition
\* Failed), with the text/plain Content-Type of a string body as their only
\* header, so without Content-Length and Content-Range, and without a call of
\* calcContentRange; 200 or 206 is given exactly when the object has a body.
C8_TextErrors ==
    ObjectRequest =>
        /\ object = <<>> =>
              /\ resp[1].status = 404
              /\ resp[1].body = TextBody("Not Found")
              /\ resp[1].headers = {<<"Content-Type", "text/plain;charset=UTF-8">>}
              /\ ranged = <<>>
        /\ (object # <<>> /\ ~object[1].hasBody) =>
              /\ resp[1].status = 412
              /\ resp[1].body = TextBody("Precondition Failed")
              /\ resp[1].headers = {<<"Content-Type", "text/plain;charset=UTF-8">>}
              /\ ranged = <<>>
        /\ resp[1].status \in {200, 206} <=> (object # <<>> /\ object[1].hasBody)
        /\ resp[1].status \in {200, 206} => ranged # <<>>

C8_Witness ==
    /\ ObjectRequest
    /\ object # <<>>
    /\ ~object[1].hasBody
    /\ resp[1].status = 412

\* C9: once a store call has failed the request has no response and ends
\* uncaught, and no store call follows the failed one.
C9_StoreFailure ==
    /\ [](storeFailed => (resp = <<>> /\ pc = "uncaught"))
    /\ [][storeFailed => (calls' = calls /\ resp' = <<>>)]_vars

C9_Witness ==
    /\ storeFailed
    /\ pc = "uncaught"
    /\ Len(calls) = 2
    /\ calls[2].op = "list"
    /\ Len(page) >= 2

(***************************************************************************)
(* Properties of the object branch.                                        *)
(***************************************************************************)
Assembled == pc = "done" /\ object # <<>> /\ object[1].hasBody

Max(a, b) == IF a >= b THEN a ELSE b

\* C3 as claimed: 0 <= rangeOffset <= rangeEnd <= max(size - 1, 0) for every
\* size and range.
C3_Bounded ==
    Assembled =>
        LET r == ranged[1]
        IN  /\ 0 <= r.rangeOffset
            /\ r.rangeOffset <= r.rangeEnd
            /\ r.rangeEnd <= Max(object[1].size - 1, 0)

\* C4: the object is answered 206 exactly when it carries a range and the length
\* of the resolved range differs from its size, and 200 otherwise.
C4_Partial ==
    Assembled =>
        LET r == ranged[1]
            contentLength == r.rangeEnd - r.rangeOffset + 1
        IN  /\ resp[1].status \in {200, 206}
            /\ resp[1].status = 206 <=>
                  (object[1].range # <<>> /\ contentLength # object[1].size)

C4_Witness ==
    /\ Assembled
    /\ object[1].size = MaxSize
    /\ object[1].range = <<[NoRange EXCEPT !.offset = <<0>>, !.length = <<MaxSize>>]>>
    /\ resp[1].status = 200

\* C5: calcContentRange gives (0, S-1) and length S without range, (S-k, S-1)
\* for a suffix k <= S, (o, min(o+L-1, S-1)) for offset o <= S-1 and length L,
\* clamped to S-1 with a length below L when o+L-1 >= S, offset 0 for a length
\* alone and an end of S-1 for an offset alone.
C5_Reference ==
    Assembled =>
        LET S == object[1].size
            r == ranged[1]
            contentLength == r.rangeEnd - r.rangeOffset + 1
        IN  IF object[1].range = <<>>
            THEN /\ r = [rangeOffset |-> 0, rangeEnd |-> S - 1]
                 /\ contentLength = S
                 /\ HeaderOf(resp[1], "Content-Length") = {ToString(S)}
            ELSE LET range == object[1].range[1]
                 IN  /\ (range.suffix # <<>> /\ range.suffix[1] <= S) =>
                            r = [rangeOffset |-> S - range.suffix[1], rangeEnd |-> S - 1]
                     /\ (range.offset # <<>> /\ range.length # <<>>
                                             /\ range.offset[1] <= S - 1) =>
                            LET o == range.offset[1]
                                L == range.length[1]
                            IN  /\ r = [rangeOffset |-> o,
                                        rangeEnd |-> Min(o + L - 1, S - 1)]
                                /\ o + L - 1 >= S =>
                                      (r.rangeEnd = S - 1 /\ contentLength < L)
                     /\ (range.suffix = <<>> /\ range.offset = <<>>) =>
                            r = [rangeOffset |-> 0,
                                 rangeEnd |-> Min(range.length[1] - 1, S - 1)]
                     /\ (range.offset # <<>> /\ range.length = <<>>) =>
                            r = [rangeOffset |-> range.offset[1], rangeEnd |-> S - 1]

C5_Witness ==
    /\ Assembled
    /\ object[1].size = 3
    /\ object[1].range = <<[NoRange EXCEPT !.offset = <<1>>, !.length = <<4>>]>>
    /\ ranged[1] = [rangeOffset |-> 1, rangeEnd |-> 2]

====
